---- MODULE Spec2Model ----
(***************************************************************************)
(* CarrotSpeed (selfdrive/carrot/carrot_speed.py): a grid of 1e-4 degree   *)
(* cells, 8 heading buckets per cell, one (value, timestamp) slot per      *)
(* bucket, persisted as a JSON payload in the Params store.                *)
(*                                                                         *)
(* Number representation                                                   *)
(*   speeds handed to add_sample : integers, hundredths of a unit          *)
(*   stored slot values          : integers, tenths (round(x, 1) results)  *)
(*   timestamps, clock           : integers, seconds                       *)
(*   latitude / longitude        : integers, 1e-7 degree (1000 per cell)   *)
(*   headings                    : integers, degrees (multiples of 45)     *)
(*   distances                   : integers, metres                        *)
(*   Optional[x]                 : None == <<>>, Some(x) == <<x>>          *)
(***************************************************************************)
EXTENDS Integers, Sequences, FiniteSets, TLC

VARIABLES cells, dirty, last_save, last_hit, store, now, phase, last, save_pc

vars == <<cells, dirty, last_save, last_hit, store, now, phase, last, save_pc>>

None == <<>>
Some(x) == <<x>>
Get(o) == o[1]

(***************************************************************************)
(* Program constants                                                       *)
(***************************************************************************)
Buckets == 8
NeighborOldThreshold == 120
UnitsPerCell == 1000
MetreE3 == 89932
EmptySlot == <<None, None>>
EmptyRow == [i \in 1..Buckets |-> EmptySlot]

(***************************************************************************)
(* Geo helpers                                                             *)
(***************************************************************************)
\* floor(lat * 1e4), floor(lon * 1e4)
quantize_1e4(lat, lon) == <<lat \div UnitsPerCell, lon \div UnitsPerCell>>

heading_to_bucket(heading_deg) ==
  LET i == (heading_deg % 360) \div 45
  IN  IF i < 0 THEN 0 ELSE IF i > 7 THEN 7 ELSE i

\* 1000 * cos / sin of a heading that is a multiple of 45 degrees
CosE3(h) ==
  LET k == (h % 360) \div 45
  IN  CASE k = 0 -> 1000
        [] k \in {1, 7} -> 707
        [] k \in {2, 6} -> 0
        [] k \in {3, 5} -> -707
        [] OTHER -> -1000

SinE3(h) == CosE3(h + 270)

\* flat-earth projection; the modelled patch lies within 1e-3 degree of the
\* equator, where cos(radians(lat)) is 1 to ten decimal places.
project_point(lat, lon, heading_deg, distance_m) ==
  IF distance_m <= 0
    THEN <<lat, lon>>
    ELSE <<lat + ((distance_m * MetreE3 * CosE3(heading_deg)) \div 1000000),
           lon + ((distance_m * MetreE3 * SinE3(heading_deg)) \div 1000000)>>

neighbors_8(gy, gx) ==
  << <<gy - 1, gx - 1>>, <<gy - 1, gx>>, <<gy - 1, gx + 1>>,
     <<gy,     gx - 1>>,                 <<gy,     gx + 1>>,
     <<gy + 1, gx - 1>>, <<gy + 1, gx>>, <<gy + 1, gx + 1>> >>

(***************************************************************************)
(* round(x, 1) on IEEE doubles.  A value that is not halfway between two   *)
(* tenths goes to the nearest tenth.  A halfway decimal is decided by the  *)
(* double that is actually rounded: the sets below list the halfway cases  *)
(* of the modelled domain whose double lies above the decimal (or is exact *)
(* with an odd lower tenth) and therefore rounds up.                       *)
(***************************************************************************)
\* hundredths h >= 0 ending in 5 for which round(h / 100, 1) rounds up
SpeedTieUp == {5, 515}

RoundAbs1(h) ==
  LET q == h \div 10
      r == h % 10
  IN  IF r < 5 THEN q
      ELSE IF r > 5 THEN q + 1
      ELSE IF h \in SpeedTieUp THEN q + 1 ELSE q

\* v_in = round(float(speed_signed), 1); round is odd-symmetric
Round1(h) == IF h >= 0 THEN RoundAbs1(h) ELSE 0 - RoundAbs1(0 - h)

\* old values v_old (tenths) for which round((v_old + v_in) / 2.0, 1) rounds up
AvgTieUp50 == {5, 7, 9, 17, 19, 25, 27, 29, 33, 39, 43, 45, 49, 53, 59, 63, 65, 69}
AvgTieUp70 == {5, 7, 9, 13, 19, 23, 25, 29, 33, 39, 43, 45, 49, 53, 59, 63, 65, 69}

\* the same for v_in = 0.1 and v_in = 0.2, old values up to 1.0
AvgTieUp1 == {0, 2, 8, 10}
AvgTieUp2 == {1, 9}

AvgTieUp(v_old, v_in) ==
  \/ v_in = 50 /\ v_old \in AvgTieUp50
  \/ v_in = 70 /\ v_old \in AvgTieUp70
  \/ v_in = 1 /\ v_old \in AvgTieUp1
  \/ v_in = 2 /\ v_old \in AvgTieUp2

\* new_val = round((v_old + v_in) / 2.0, 1)
RoundAvg(v_old, v_in) ==
  LET s == v_old + v_in
  IN  IF s % 2 = 0 THEN s \div 2
      ELSE IF AvgTieUp(v_old, v_in) THEN (s + 1) \div 2 ELSE (s - 1) \div 2

(***************************************************************************)
(* JSON values as json.loads produces them.  Numbers carry tenths, so      *)
(* JNum(85) is 8.5 and JInt(8) is 8.  A cell key "gy,gx" is the sequence   *)
(* of its comma-separated integers.                                        *)
(***************************************************************************)
JNull == [t |-> "null"]
JNum(x) == [t |-> "num", x |-> x]
JInt(n) == JNum(10 * n)
JStr(s) == [t |-> "str", s |-> s]
JList(items) == [t |-> "list", items |-> items]
JDict(map) == [t |-> "dict", map |-> map]
JMissing == [t |-> "missing"]

\* int(j): truncation toward zero of a number; None when int() raises
IntOf(j) ==
  IF j.t = "num"
    THEN Some(IF j.x >= 0 THEN j.x \div 10 ELSE 0 - ((0 - j.x) \div 10))
    ELSE None

\* float(j) in tenths; None when float() raises
FloatOf(j) == IF j.t = "num" THEN Some(j.x) ELSE None

IsPair(p) == p.t = "list" /\ Len(p.items) = 2

\* lines 322-330: a pair whose float()/int() conversion raises
PairRaises(p) ==
  /\ IsPair(p)
  /\ \/ p.items[1].t # "null" /\ FloatOf(p.items[1]) = None
     \/ p.items[2].t # "null" /\ IntOf(p.items[2]) = None

FixPair(p) ==
  IF IsPair(p)
    THEN << IF p.items[1].t = "null" THEN None ELSE FloatOf(p.items[1]),
            IF p.items[2].t = "null" THEN None ELSE IntOf(p.items[2]) >>
    ELSE EmptySlot

IsRow(arr) == arr.t = "list" /\ Len(arr.items) = 8

RowRaises(arr) == IsRow(arr) /\ \E i \in 1..8 : PairRaises(arr.items[i])

\* lines 320-332
FixRow(arr) ==
  IF IsRow(arr)
    THEN [i \in 1..8 |-> FixPair(arr.items[i])]
    ELSE [i \in 1..8 |-> EmptySlot]

\* gy, gx = map(int, key.split(",")) raises unless the key has two parts
KeyRaises(key) == Len(key) # 2

\* data.get("cells", {})
CellsOf(data) == IF data.cells.t = "missing" THEN JDict(<<>>) ELSE data.cells

\* lines 317-333: the exception cases of the restore loop
RestoreRaises(data) ==
  \/ CellsOf(data).t # "dict"
  \/ \E key \in DOMAIN CellsOf(data).map :
        KeyRaises(key) \/ RowRaises(CellsOf(data).map[key])

Restored(data) ==
  LET m == CellsOf(data).map
  IN  [c \in {<<key[1], key[2]>> : key \in DOMAIN m} |-> FixRow(m[c])]

\* raw bytes in the store: a gzip envelope (magic 1F 8B) or plain text; the
\* envelope can be damaged; the text is a JSON document or unparseable.
RawBytes(gz, damaged, text) == [gzip |-> gz, damaged |-> damaged, text |-> text]

is_gzip(raw) == raw.gzip

\* lines 295-298 raise: bad gzip stream or json.loads failure
ParseRaises(raw) ==
  \/ is_gzip(raw) /\ raw.damaged
  \/ raw.text.t = "garbage"

\* a loader without the dir_buckets check
LoadOutcomeNoBuckets(raw) ==
  IF ParseRaises(raw) THEN "failed"
  ELSE IF raw.text.t # "dict" THEN "failed"
  ELSE IF raw.text.format # JStr("v4") THEN "foreign"
  ELSE IF RestoreRaises(raw.text) THEN "failed"
  ELSE "loaded"

\* outcome of _load_from_params_if_exists on raw bytes:
\*   "loaded" (lines 335-337), "foreign" (lines 301-315), "failed" (339-344)
LoadOutcome(raw) ==
  IF ParseRaises(raw) THEN "failed"
  ELSE IF raw.text.t # "dict" THEN "failed"
  ELSE IF raw.text.format # JStr("v4") THEN "foreign"
  ELSE IF raw.text.dir_buckets.t # "missing" /\ IntOf(raw.text.dir_buckets) = None
    THEN "failed"
  ELSE IF raw.text.dir_buckets.t # "missing" /\ Get(IntOf(raw.text.dir_buckets)) # 8
    THEN "foreign"
  ELSE IF RestoreRaises(raw.text) THEN "failed"
  ELSE "loaded"

\* an encoder that writes the timestamps in milliseconds
encode_payload_ms(grid, use_gzip) ==
  RawBytes(use_gzip, FALSE,
    [t |-> "dict",
     format |-> JStr("v4"),
     dir_buckets |-> JInt(Buckets),
     cells |-> JDict([c \in DOMAIN grid |->
                 JList([i \in 1..Len(grid[c]) |->
                   JList(<< IF grid[c][i][1] = None THEN JNull
                                                    ELSE JNum(Get(grid[c][i][1])),
                            IF grid[c][i][2] = None THEN JNull
                                                    ELSE JInt(1000 * Get(grid[c][i][2])) >>)])])])

\* lines 276-288
encode_payload(grid, use_gzip) ==
  RawBytes(use_gzip, FALSE,
    [t |-> "dict",
     format |-> JStr("v4"),
     dir_buckets |-> JInt(Buckets),
     cells |-> JDict([c \in DOMAIN grid |->
                 JList([i \in 1..Len(grid[c]) |->
                   JList(<< IF grid[c][i][1] = None THEN JNull
                                                    ELSE JNum(Get(grid[c][i][1])),
                            IF grid[c][i][2] = None THEN JNull
                                                    ELSE JInt(Get(grid[c][i][2])) >>)])])])

(***************************************************************************)
(* Params store (openpilot.common.params): one keyed blob                  *)
(***************************************************************************)
ParamsGet(st) == st
ParamsPut(st, payload) == Some(payload)
ParamsRemove(st) == None

(***************************************************************************)
(* Grid access                                                             *)
(***************************************************************************)
UseGzip == TRUE

HasCell(grid, c) == c \in DOMAIN grid

\* an _ensure_cell that builds one slot too few
ensure_cell_short(grid, c) ==
  IF HasCell(grid, c)
    THEN grid
    ELSE [k \in DOMAIN grid \cup {c} |->
            IF k = c THEN [i \in 1..(Buckets - 1) |-> EmptySlot] ELSE grid[k]]

\* _ensure_cell: the grid with cell c present
ensure_cell(grid, c) ==
  IF HasCell(grid, c)
    THEN grid
    ELSE [k \in DOMAIN grid \cup {c} |-> IF k = c THEN EmptyRow ELSE grid[k]]

\* arr[b] = slot
SetSlot(grid, c, b, slot) == [grid EXCEPT ![c] = [@ EXCEPT ![b + 1] = slot]]

\* the caller's view of the most recent call: which operation, what it returned
Call(op, args, ret) == [op |-> op, ret |-> ret]

(***************************************************************************)
(* __init__ : state before the load, then _load_from_params_if_exists      *)
(***************************************************************************)
StartTime == 1000

InitWith(stores) ==
  /\ cells = <<>>
  /\ dirty = FALSE
  /\ last_save = 0
  /\ last_hit = None
  /\ store \in stores
  /\ now = StartTime
  /\ phase = "constructing"
  /\ last = [op |-> "new", ret |-> None]
  /\ save_pc = "idle"

load_from_params_if_exists ==
  /\ phase = "constructing"
  /\ phase' = "ready"
  /\ LET raw == ParamsGet(store)
     IN  IF raw = None
           THEN /\ UNCHANGED <<cells, dirty, store>>
                /\ last' = Call("load", <<>>, "absent")
           ELSE LET outcome == LoadOutcome(Get(raw))
                IN  /\ last' = Call("load", <<>>, outcome)
                    /\ dirty' = FALSE
                    /\ IF outcome = "loaded"
                         THEN /\ cells' = Restored(Get(raw).text)
                              /\ UNCHANGED store
                         ELSE /\ cells' = <<>>
                              /\ store' = ParamsRemove(store)
  /\ UNCHANGED <<last_save, last_hit, now, save_pc>>

(***************************************************************************)
(* add_sample                                                              *)
(***************************************************************************)
\* a merge that averages a positive sample into a negative old value
MergeSlotNoOverride(slot, v_in, t) ==
  IF slot[1] = None
    THEN <<Some(v_in), Some(t)>>
    ELSE IF v_in > 0
           THEN <<Some(RoundAvg(Get(slot[1]), v_in)), slot[2]>>
           ELSE <<Some(v_in), slot[2]>>

\* a merge that stamps every write with the current time
MergeSlotBump(slot, v_in, t) ==
  IF slot[1] = None \/ v_in < 0 \/ Get(slot[1]) < 0
    THEN <<Some(v_in), Some(t)>>
    ELSE <<Some(RoundAvg(Get(slot[1]), v_in)), Some(t)>>

\* lines 150-161: the slot written for old slot <<v_old, ts_old>>
MergeSlot(slot, v_in, t) ==
  LET v_old == slot[1]
      ts_old == slot[2]
  IN  IF v_old = None
        THEN <<Some(v_in), Some(t)>>
        ELSE IF v_in > 0
               THEN IF Get(v_old) < 0
                      THEN <<Some(v_in), ts_old>>
                      ELSE <<Some(RoundAvg(Get(v_old), v_in)), ts_old>>
               ELSE <<Some(v_in), ts_old>>

\* an add_sample that fetches-or-creates the cell before the zero check
add_sample_ensure_first(lat, lon, heading_deg, speed_signed) ==
  /\ phase = "ready"
  /\ last' = Call("add_sample", <<lat, lon, heading_deg, speed_signed>>, None)
  /\ LET v_in == Round1(speed_signed)
         c == quantize_1e4(lat, lon)
         b == heading_to_bucket(heading_deg)
         arr == ensure_cell(cells, c)
     IN  IF v_in = 0
           THEN /\ cells' = arr
                /\ UNCHANGED dirty
           ELSE /\ cells' = SetSlot(arr, c, b, MergeSlot(arr[c][b + 1], v_in, now))
                /\ dirty' = TRUE
  /\ UNCHANGED <<last_save, last_hit, store, now, phase, save_pc>>

add_sample(lat, lon, heading_deg, speed_signed) ==
  /\ phase = "ready"
  /\ last' = Call("add_sample", <<lat, lon, heading_deg, speed_signed>>, None)
  /\ LET v_in == Round1(speed_signed)
         c == quantize_1e4(lat, lon)
         b == heading_to_bucket(heading_deg)
         arr == ensure_cell(cells, c)
     IN  IF v_in = 0
           THEN UNCHANGED <<cells, dirty>>
           ELSE /\ cells' = SetSlot(arr, c, b, MergeSlot(arr[c][b + 1], v_in, now))
                /\ dirty' = TRUE
  /\ UNCHANGED <<last_save, last_hit, store, now, phase, save_pc>>

(***************************************************************************)
(* query_target_dist                                                       *)
(***************************************************************************)
\* a gate that accepts a slot of any age
EligibleAnyAge(slot, t) == slot[1] # None /\ slot[2] # None

\* a gate that needs the age to exceed the threshold
EligibleStrict(slot, t) ==
  /\ slot[1] # None
  /\ slot[2] # None
  /\ t - Get(slot[2]) > NeighborOldThreshold

\* lines 123-126 for one bucket
Eligible(slot, t) ==
  /\ slot[1] # None
  /\ slot[2] # None
  /\ ~ (t - Get(slot[2]) < NeighborOldThreshold)

\* _try_cell_buckets_old: Some(<<v, bi>>) or None
try_cell_buckets_old(arr, b, t) ==
  LET bi(off) == (b + off) % Buckets
  IN  IF Eligible(arr[bi(0) + 1], t) THEN Some(<<Get(arr[bi(0) + 1][1]), bi(0)>>)
      ELSE IF Eligible(arr[bi(0 - 1) + 1], t) THEN Some(<<Get(arr[bi(0 - 1) + 1][1]), bi(0 - 1)>>)
      ELSE IF Eligible(arr[bi(1) + 1], t) THEN Some(<<Get(arr[bi(1) + 1][1]), bi(1)>>)
      ELSE None

\* lines 185-189
CandDs(dist) ==
  LET opt(off) == IF dist + off >= 0 THEN <<dist + off>> ELSE <<>>
  IN  <<dist>> \o opt(3) \o opt(0 - 3) \o opt(6) \o opt(0 - 6)

\* lines 197-199 and 211-214: Some(<<v, gy, gx, bi>>) or None
TryCell(grid, c, b, t) ==
  IF ~ HasCell(grid, c) THEN None
  ELSE LET r == try_cell_buckets_old(grid[c], b, t)
       IN  IF r = None THEN None ELSE Some(<<Get(r)[1], c[1], c[2], Get(r)[2]>>)

\* lines 210-219: the neighbor loop from position i
RECURSIVE ScanNeighbors(_, _, _, _, _)
ScanNeighbors(grid, nbs, i, b, t) ==
  IF i > Len(nbs) THEN None
  ELSE LET r == TryCell(grid, nbs[i], b, t)
       IN  IF r # None THEN r ELSE ScanNeighbors(grid, nbs, i + 1, b, t)

\* lines 192-219: the candidate-distance loop from position i
RECURSIVE ScanDistances(_, _, _, _, _, _, _, _, _)
ScanDistances(grid, ds, i, lat, lon, heading_deg, b, nf, t) ==
  IF i > Len(ds) THEN None
  ELSE LET p == project_point(lat, lon, heading_deg, ds[i])
           g == quantize_1e4(p[1], p[2])
           home == TryCell(grid, g, b, t)
       IN  IF home # None THEN home
           ELSE IF ~ nf THEN ScanDistances(grid, ds, i + 1, lat, lon, heading_deg, b, nf, t)
           ELSE LET nb == ScanNeighbors(grid, neighbors_8(g[1], g[2]), 1, b, t)
                IN  IF nb # None THEN nb
                    ELSE ScanDistances(grid, ds, i + 1, lat, lon, heading_deg, b, nf, t)

\* a query that records the target bucket instead of the bucket that matched
QueryHitTargetBucket(grid, lat, lon, heading_deg, dist, nf, t) ==
  LET h == ScanDistances(grid, CandDs(dist), 1, lat, lon, heading_deg,
                         heading_to_bucket(heading_deg), nf, t)
  IN  IF h = None
        THEN None
        ELSE Some(<<Get(h)[1], Get(h)[2], Get(h)[3], heading_to_bucket(heading_deg)>>)

\* a search that tries the home cells of all distances before any neighbor
QueryHitHomesFirst(grid, lat, lon, heading_deg, dist, nf, t) ==
  LET b == heading_to_bucket(heading_deg)
      homes == ScanDistances(grid, CandDs(dist), 1, lat, lon, heading_deg, b, FALSE, t)
  IN  IF homes # None THEN homes
      ELSE ScanDistances(grid, CandDs(dist), 1, lat, lon, heading_deg, b, nf, t)

\* the match of query_target_dist: Some(<<v, gy, gx, bi>>) or None
QueryHit(grid, lat, lon, heading_deg, dist, nf, t) ==
  ScanDistances(grid, CandDs(dist), 1, lat, lon, heading_deg,
                heading_to_bucket(heading_deg), nf, t)

query_target_dist(lat, lon, heading_deg, dist, neighbor_fallback) ==
  /\ phase = "ready"
  /\ LET h == QueryHit(cells, lat, lon, heading_deg, dist, neighbor_fallback, now)
     IN  IF h = None
           THEN /\ last' = Call("query", <<lat, lon, heading_deg, dist, neighbor_fallback>>, 0)
                /\ UNCHANGED last_hit
           ELSE /\ last' = Call("query", <<lat, lon, heading_deg, dist, neighbor_fallback>>,
                                Get(h)[1])
                /\ last_hit' = Some(<<Get(h)[2], Get(h)[3], Get(h)[4], now>>)
  /\ UNCHANGED <<cells, dirty, last_save, store, now, phase, save_pc>>

\* query_target: dist = max(0.0, v_ego * lookahead_s)
query_target(lat, lon, heading_deg, v_ego, lookahead_s, neighbor_fallback) ==
  query_target_dist(lat, lon, heading_deg,
                    IF v_ego * lookahead_s > 0 THEN v_ego * lookahead_s ELSE 0,
                    neighbor_fallback)

(***************************************************************************)
(* invalidate_last_hit                                                     *)
(***************************************************************************)
\* a window test that refuses an elapsed time equal to the window
OutsideWindowInclusive(read_ts, t, window_s) == (t - read_ts) >= window_s

\* line 235: the call is refused when (now - int(read_ts)) > window_s
OutsideWindow(read_ts, t, window_s) == (t - read_ts) > window_s

\* an invalidation in which "age_bump" leaves the old timestamp in place
InvalidatedSlotNoStamp(slot, action, t) ==
  IF action = "clear" THEN Some(EmptySlot)
  ELSE IF slot[1] # None THEN Some(slot)
  ELSE None

\* an invalidation in which "clear" only re-stamps the slot
InvalidatedSlotKeeps(slot, action, t) ==
  IF slot[1] # None THEN Some(<<slot[1], Some(t)>>) ELSE None

\* lines 242-251: Some(new slot), or None for the early return False
InvalidatedSlot(slot, action, t) ==
  IF action = "clear" THEN Some(EmptySlot)
  ELSE IF slot[1] # None THEN Some(<<slot[1], Some(t)>>)
  ELSE None

invalidate_last_hit(window_s, action) ==
  /\ phase = "ready"
  /\ IF last_hit = None
       THEN /\ last' = Call("invalidate", <<window_s, action>>, FALSE)
            /\ UNCHANGED <<cells, dirty>>
       ELSE LET c == <<Get(last_hit)[1], Get(last_hit)[2]>>
                b == Get(last_hit)[3]
                read_ts == Get(last_hit)[4]
            IN  IF OutsideWindow(read_ts, now, window_s) \/ ~ HasCell(cells, c)
                  THEN /\ last' = Call("invalidate", <<window_s, action>>, FALSE)
                       /\ UNCHANGED <<cells, dirty>>
                  ELSE LET s == InvalidatedSlot(cells[c][b + 1], action, now)
                       IN  IF s = None
                             THEN /\ last' = Call("invalidate", <<window_s, action>>, FALSE)
                                  /\ UNCHANGED <<cells, dirty>>
                             ELSE /\ last' = Call("invalidate", <<window_s, action>>, TRUE)
                                  /\ cells' = SetSlot(cells, c, b, Get(s))
                                  /\ dirty' = TRUE
  /\ UNCHANGED <<last_save, last_hit, store, now, phase, save_pc>>

(***************************************************************************)
(* save, maybe_save, close                                                 *)
(***************************************************************************)
\* lines 262-265
SaveEffect ==
  /\ store' = ParamsPut(store, encode_payload(cells, UseGzip))
  /\ last_save' = now
  /\ dirty' = FALSE
  /\ UNCHANGED <<cells, last_hit, now, phase>>

save ==
  /\ phase = "ready"
  /\ save_pc = "idle"
  /\ last' = Call("save", <<>>, None)
  /\ SaveEffect
  /\ UNCHANGED save_pc

\* an early return that also refuses an elapsed time equal to the interval
SaveNotDueInclusive(interval_s) == (~ dirty) \/ (now - last_save <= interval_s)

\* line 257: the early return of maybe_save
SaveNotDue(interval_s) == (~ dirty) \/ (now - last_save < interval_s)

maybe_save(interval_s) ==
  /\ phase = "ready"
  /\ save_pc = "idle"
  /\ last' = Call("maybe_save", <<interval_s>>, None)
  /\ UNCHANGED save_pc
  /\ IF SaveNotDue(interval_s)
       THEN UNCHANGED <<cells, dirty, last_save, last_hit, store, now, phase>>
       ELSE SaveEffect

close ==
  /\ phase = "ready"
  /\ save_pc = "idle"
  /\ last' = Call("close", <<>>, None)
  /\ UNCHANGED save_pc
  /\ IF dirty
       THEN SaveEffect
       ELSE UNCHANGED <<cells, dirty, last_save, last_hit, store, now, phase>>

(***************************************************************************)
(* save() called from a second thread.  Only _encode_payload takes the     *)
(* lock, so the caller of add_sample / invalidate_last_hit can run between *)
(* the statements of save(): save_pc is the saving thread's position.      *)
(* put_nonblocking reads nothing the other thread writes, so it is taken   *)
(* together with the snapshot.                                             *)
(***************************************************************************)
\* lines 262-263: payload = self._encode_payload(); put_nonblocking(KEY, payload)
save_put ==
  /\ phase = "ready"
  /\ save_pc = "idle"
  /\ store' = ParamsPut(store, encode_payload(cells, UseGzip))
  /\ save_pc' = "put"
  /\ last' = Call("save", <<>>, None)
  /\ UNCHANGED <<cells, dirty, last_save, last_hit, now, phase>>

\* maybe_save, lines 256-259, up to the put of the save() it calls
maybe_save_put(interval_s) ==
  /\ phase = "ready"
  /\ save_pc = "idle"
  /\ ~ SaveNotDue(interval_s)
  /\ store' = ParamsPut(store, encode_payload(cells, UseGzip))
  /\ save_pc' = "put"
  /\ last' = Call("maybe_save", <<interval_s>>, None)
  /\ UNCHANGED <<cells, dirty, last_save, last_hit, now, phase>>

\* line 264: self._last_save = self._now()
save_stamp ==
  /\ save_pc = "put"
  /\ last_save' = now
  /\ save_pc' = "stamped"
  /\ UNCHANGED <<cells, dirty, last_hit, store, now, phase, last>>

\* line 265: self._dirty = False
save_clean ==
  /\ save_pc = "stamped"
  /\ dirty' = FALSE
  /\ save_pc' = "idle"
  /\ UNCHANGED <<cells, last_save, last_hit, store, now, phase, last>>

(***************************************************************************)
(* The wall clock (time.time()) advances between calls                     *)
(***************************************************************************)
Tick(t) ==
  /\ phase = "ready"
  /\ t > now
  /\ now' = t
  /\ UNCHANGED <<cells, dirty, last_save, last_hit, store, phase, last, save_pc>>

(***************************************************************************)
(* Stored payloads found at construction                                   *)
(***************************************************************************)
JSlot(v, ts) == JList(<<v, ts>>)
JEmpty == JSlot(JNull, JNull)
JRow(f) == JList([i \in 1..8 |-> IF (i - 1) \in DOMAIN f THEN f[i - 1] ELSE JEmpty])
Doc(format, dir_buckets, cellmap) ==
  [t |-> "dict", format |-> format, dir_buckets |-> dir_buckets, cells |-> cellmap]
V4 == JStr("v4")

\* bucket 2 of cell (5,5) holds 6.0 written 120 s before StartTime; bucket 1
\* carries a value without a timestamp, bucket 3 a timestamp without a value;
\* cell (5,6) holds 7.0 with a fractional timestamp
GoodCells ==
  JDict((<<5, 5>> :> JRow((2 :> JSlot(JNum(60), JInt(StartTime - 120)))
                          @@ (1 :> JSlot(JNum(50), JNull))
                          @@ (3 :> JSlot(JNull, JInt(StartTime - 500)))))
        @@ (<<5, 6>> :> JRow((2 :> JSlot(JNum(70), JNum(10 * (StartTime - 121) + 5))))))

\* one well-formed cell holding 0.0, one cell of 7 pairs, one cell with a
\* non-pair entry
RepairCells ==
  JDict((<<5, 5>> :> JRow((2 :> JSlot(JNum(0), JInt(StartTime - 300)))))
        @@ (<<4, 5>> :> JList([i \in 1..7 |-> JSlot(JNum(50), JInt(StartTime - 300))]))
        @@ (<<5, 6>> :> JList([i \in 1..8 |-> IF i = 3 THEN JNum(50)
                                               ELSE JSlot(JNum(50), JInt(StartTime - 300))])))

\* a good cell next to an entry that makes the restore loop raise
BadKeyCells ==
  JDict((<<5, 5>> :> JRow((2 :> JSlot(JNum(60), JInt(StartTime - 120)))))
        @@ (<<7>> :> JRow(<<>>)))
BadValueCells ==
  JDict((<<5, 5>> :> JRow((2 :> JSlot(JNum(60), JInt(StartTime - 120)))))
        @@ (<<5, 6>> :> JRow((2 :> JSlot(JStr("fast"), JInt(StartTime - 120))))))

\* format "v4", dir_buckets 8 or not declared
CurrentPayloads ==
  { RawBytes(TRUE, FALSE, Doc(V4, JInt(8), GoodCells)),
    RawBytes(FALSE, FALSE, Doc(V4, JMissing, RepairCells)),
    RawBytes(FALSE, FALSE, Doc(V4, JInt(8), JMissing)) }

\* another format tag, or a declared dir_buckets other than 8
ForeignPayloads ==
  { RawBytes(TRUE, FALSE, Doc(JStr("v2"), JInt(8), GoodCells)),
    RawBytes(FALSE, FALSE, Doc(JMissing, JInt(8), GoodCells)),
    RawBytes(TRUE, FALSE, Doc(V4, JInt(4), GoodCells)),
    RawBytes(FALSE, FALSE, Doc(V4, JNum(85), GoodCells)) }

\* payloads on which gzip.decompress, json.loads or the restore loop raises
BrokenPayloads ==
  { RawBytes(FALSE, FALSE, [t |-> "garbage"]),
    RawBytes(TRUE, TRUE, Doc(V4, JInt(8), GoodCells)),
    RawBytes(FALSE, FALSE, JList(<<>>)),
    RawBytes(FALSE, FALSE, Doc(V4, JNull, GoodCells)),
    RawBytes(FALSE, FALSE, Doc(V4, JInt(8), JList(<<>>))),
    RawBytes(TRUE, FALSE, Doc(V4, JInt(8), BadKeyCells)),
    RawBytes(FALSE, FALSE, Doc(V4, JInt(8), BadValueCells)) }

InitialStores ==
  {None} \cup {Some(p) : p \in CurrentPayloads \cup ForeignPayloads \cup BrokenPayloads}

(***************************************************************************)
(* Inputs shared by the specifications                                     *)
(***************************************************************************)
\* the clock is read at StartTime + 0..FineSeconds and again one jump later
JumpSeconds == NeighborOldThreshold - 1
FineSeconds == 3
Instants ==
  (StartTime .. (StartTime + FineSeconds))
    \cup ((StartTime + JumpSeconds) .. (StartTime + JumpSeconds + FineSeconds))

\* points of cells (5,5) and (4,5)
PointA == <<5500, 5500>>
PointN == <<4500, 5500>>
\* 10 m east of this point is cell (5,5), 13 m east is cell (5,6)
PointO == <<5500, 5010>>

(***************************************************************************)
(* Spec: the life cycle of the store, every kind of stored payload         *)
(***************************************************************************)
\* maybe_save with its default interval and with one that a save at
\* StartTime + 1 meets exactly at StartTime + JumpSeconds + 1
SaveIntervals == {60, JumpSeconds}

Init == InitWith(InitialStores)

Next ==
  \/ load_from_params_if_exists
  \/ \E s \in {0, 500} : add_sample(PointN[1], PointN[2], 90, s)
  \/ \E nf \in BOOLEAN : query_target_dist(PointO[1], PointO[2], 90, 10, nf)
  \/ query_target(PointO[1], PointO[2], 90, 5, 2, TRUE)
  \/ \E a \in {"clear", "age_bump"} : invalidate_last_hit(2, a)
  \/ save
  \/ \E i \in SaveIntervals : maybe_save(i)
  \/ close
  \/ \E t \in {StartTime + 1, StartTime + JumpSeconds + 1} : Tick(t)

Spec == Init /\ [][Next]_vars

(***************************************************************************)
(* SpecMerge: the merge policy of add_sample on two buckets of one cell    *)
(***************************************************************************)
\* 0.04 and -0.04 round to 0.0, 5.05 rounds to 5.0
SampleSpeeds == {0, 4, -4, 500, 505, 700, -300}

InitMerge == InitWith({None, Some(RawBytes(TRUE, FALSE, Doc(V4, JInt(8), GoodCells)))})

NextMerge ==
  \/ load_from_params_if_exists
  \/ \E h \in {45, 90}, s \in SampleSpeeds : add_sample(PointA[1], PointA[2], h, s)
  \/ query_target_dist(PointO[1], PointO[2], 90, 10, TRUE)
  \/ invalidate_last_hit(2, "clear")
  \/ Tick(StartTime + 1)

SpecMerge == InitMerge /\ [][NextMerge]_vars

(***************************************************************************)
(* SpecInvalidate: queries and invalidations around the window and the     *)
(* recency threshold                                                       *)
(***************************************************************************)
NextInvalidate ==
  \/ load_from_params_if_exists
  \/ \E s \in {0, 500} : add_sample(PointA[1], PointA[2], 90, s)
  \/ query_target_dist(PointO[1], PointO[2], 90, 10, TRUE)
  \/ \E w \in {0, 2}, a \in {"clear", "age_bump"} : invalidate_last_hit(w, a)
  \/ \E t \in Instants : Tick(t)

SpecInvalidate == InitMerge /\ [][NextInvalidate]_vars

(***************************************************************************)
(* SpecQuery: the search order of query_target_dist.  The stored payload   *)
(* populates any subset of QuerySlots, each with its own value, written    *)
(* 120 s before StartTime.                                                 *)
(***************************************************************************)
\* 10 m north of this point is cell (5,5), 13 m north is cell (6,5)
PointP == <<5010, 5500>>

\* heading 0 is bucket 0, so the buckets tried are 0, 7 and 1
QuerySlots ==
  { [c |-> <<5, 5>>, b |-> 0, v |-> 50],
    [c |-> <<5, 5>>, b |-> 7, v |-> 11],
    [c |-> <<5, 5>>, b |-> 1, v |-> -12],
    [c |-> <<4, 4>>, b |-> 1, v |-> 14],
    [c |-> <<4, 5>>, b |-> 0, v |-> 0],
    [c |-> <<6, 5>>, b |-> 7, v |-> 16] }

QueryCells(S) ==
  JDict([c \in {q.c : q \in S} |->
           JList([i \in 1..8 |->
             IF \E q \in S : q.c = c /\ q.b = i - 1
               THEN JSlot(JNum((CHOOSE q \in S : q.c = c /\ q.b = i - 1).v),
                          JInt(StartTime - NeighborOldThreshold))
               ELSE JEmpty])])

InitQuery ==
  InitWith({Some(RawBytes(FALSE, FALSE, Doc(V4, JInt(8), QueryCells(S)))) :
              S \in SUBSET QuerySlots})

QueryDists == {3, 10}

NextQuery ==
  \/ load_from_params_if_exists
  \/ add_sample(PointA[1], PointA[2], 0, 500)
  \/ \E d \in QueryDists, nf \in BOOLEAN : query_target_dist(PointP[1], PointP[2], 0, d, nf)
  \/ query_target(PointP[1], PointP[2], 0, 5, 2, TRUE)
  \/ invalidate_last_hit(2, "clear")
  \/ \E t \in {StartTime + JumpSeconds, StartTime + JumpSeconds + 1} : Tick(t)

SpecQuery == InitQuery /\ [][NextQuery]_vars

(***************************************************************************)
(* SpecThreads: one thread adds samples, queries and invalidates while a   *)
(* second thread saves                                                     *)
(***************************************************************************)
NextThreads ==
  \/ load_from_params_if_exists
  \/ \E s \in {500, -300} : add_sample(PointA[1], PointA[2], 90, s)
  \/ query_target_dist(PointO[1], PointO[2], 90, 10, TRUE)
  \/ invalidate_last_hit(2, "clear")
  \/ save_put
  \/ maybe_save_put(60)
  \/ save_stamp
  \/ save_clean
  \/ Tick(StartTime + 1)

SpecThreads == InitMerge /\ [][NextThreads]_vars

(***************************************************************************)
(* SpecFresh: samples merged into a slot shortly before it is queried,     *)
(* with saves in between                                                   *)
(***************************************************************************)
FreshInstants == {StartTime + 1, StartTime + JumpSeconds, StartTime + JumpSeconds + 1}

NextFresh ==
  \/ load_from_params_if_exists
  \/ \E s \in {500, -300} : add_sample(PointA[1], PointA[2], 90, s)
  \/ query_target_dist(PointO[1], PointO[2], 90, 10, TRUE)
  \/ save
  \/ \E t \in FreshInstants : Tick(t)

SpecFresh == InitMerge /\ [][NextFresh]_vars

(***************************************************************************)
(* SpecSmall: the smallest samples, on a store that starts empty           *)
(***************************************************************************)
\* 0.04 rounds to 0.0; 0.05 and 0.1 are stored as 0.1, 0.2 as 0.2
SmallSpeeds == {0, 4, 5, 10, 20, -10}

NextSmall ==
  \/ load_from_params_if_exists
  \/ \E h \in {45, 90}, s \in SmallSpeeds : add_sample(PointA[1], PointA[2], h, s)
  \/ query_target_dist(PointO[1], PointO[2], 90, 10, TRUE)
  \/ \E a \in {"clear", "age_bump"} : invalidate_last_hit(2, a)
  \/ \E t \in {StartTime + 1, StartTime + JumpSeconds + 1} : Tick(t)

SpecSmall == InitWith({None}) /\ [][NextSmall]_vars

(***************************************************************************)
(* Properties                                                              *)
(***************************************************************************)
\* the slot of cell c, bucket b; a cell that is not in the grid has no values
SlotAt(grid, c, b) == IF HasCell(grid, c) THEN grid[c][b + 1] ELSE EmptySlot

Abs(x) == IF x >= 0 THEN x ELSE 0 - x

\* r is a one-decimal rounding of (a + b) / 2, all in tenths
IsRoundedMean(r, a, b) == Abs(2 * r - (a + b)) <= 1

MergeHeadings == {45, 90}
CellA == quantize_1e4(PointA[1], PointA[2])

C2_TimestampCarried ==
  [][\A h \in MergeHeadings, s \in SampleSpeeds :
       (last'.op = "add_sample" /\ add_sample(PointA[1], PointA[2], h, s)) =>
         LET b == heading_to_bucket(h)
             old == SlotAt(cells, CellA, b)
             new == SlotAt(cells', CellA, b)
         IN  /\ old[1] # None => new[2] = old[2]
             /\ new[2] # old[2] => (old[1] = None /\ new[2] = Some(now))
             /\ (old[1] = None /\ Round1(s) # 0) => new[2] = Some(now)
    ]_vars

\* one second after the first write the slot has been rewritten and still
\* carries the time of the first write, next to a slot first filled later
C2_Witness ==
  /\ store = None
  /\ now = StartTime + 1
  /\ last.op = "add_sample"
  /\ SlotAt(cells, CellA, 2) = <<Some(65), Some(StartTime)>>
  /\ SlotAt(cells, CellA, 1) = <<Some(-30), Some(StartTime + 1)>>

\* C3: add_sample with a speed that rounds to 0.0 changes nothing (no slot, no
\* new cell, not the dirty flag, not the last-hit marker); a non-zero
\* add_sample changes at most the addressed slot.
C3_ZeroNoOpOneSlot ==
  [][\A h \in MergeHeadings, s \in SampleSpeeds :
       (last'.op = "add_sample" /\ add_sample(PointA[1], PointA[2], h, s)) =>
         IF Round1(s) = 0
           THEN UNCHANGED <<cells, dirty, last_hit, last_save, store>>
           ELSE /\ DOMAIN cells' = DOMAIN cells \cup {CellA}
                /\ \A c \in DOMAIN cells', i \in 0..(Buckets - 1) :
                     (c # CellA \/ i # heading_to_bucket(h)) =>
                        cells'[c][i + 1] = SlotAt(cells, c, i)
                /\ UNCHANGED <<last_hit, last_save, store>>
    ]_vars

\* a zero sample on a grid without the addressed cell: still no cell, clean
C3_Witness ==
  /\ last.op = "add_sample"
  /\ cells = <<>>
  /\ ~ dirty
  /\ phase = "ready"

\* a slot that may be used at time t: a value, and a timestamp at least
\* neighborOldThresholdSeconds old
OldEnough(slot, t) ==
  /\ slot[1] # None
  /\ slot[2] # None
  /\ t - Get(slot[2]) >= NeighborOldThreshold

CellP == quantize_1e4(PointP[1], PointP[2])

\* the slot named by a last-hit marker
MarkedSlot(grid, m) == SlotAt(grid, <<Get(m)[1], Get(m)[2]>>, Get(m)[3])

ClaimedDists(d) == SelectSeq(<<d, d + 3, d - 3, d + 6, d - 6>>, LAMBDA x : x >= 0)

ClaimedOffsets ==
  SelectSeq([k \in 1..9 |-> <<((k - 1) \div 3) - 1, ((k - 1) % 3) - 1>>],
            LAMBDA o : o # <<0, 0>>)

ClaimedCells(g, nf) ==
  IF nf
    THEN <<g>> \o [k \in 1..8 |-> <<g[1] + ClaimedOffsets[k][1], g[2] + ClaimedOffsets[k][2]>>]
    ELSE <<g>>

ClaimedBuckets(b) == <<b, (b - 1) % 8, (b + 1) % 8>>

\* sequence of <<gy, gx, bucket>> in priority order
ClaimedOrder(lat, lon, h, d, nf) ==
  LET ds == ClaimedDists(d)
      nc == IF nf THEN 9 ELSE 1
      cellsAt(i) ==
        LET p == project_point(lat, lon, h, ds[((i - 1) \div (3 * nc)) + 1])
        IN  ClaimedCells(quantize_1e4(p[1], p[2]), nf)
  IN  [i \in 1..(Len(ds) * nc * 3) |->
         LET c == cellsAt(i)[(((i - 1) % (3 * nc)) \div 3) + 1]
         IN  <<c[1], c[2], ClaimedBuckets(heading_to_bucket(h))[((i - 1) % 3) + 1]>>]

\* the claimed order of every query of SpecQuery
QueryOrders ==
  [d \in QueryDists, nf \in BOOLEAN |-> ClaimedOrder(PointP[1], PointP[2], 0, d, nf)]

\* position of the first usable slot of the order, 0 when there is none
FirstOld(order, grid, t) ==
  LET ok(i) == OldEnough(SlotAt(grid, <<order[i][1], order[i][2]>>, order[i][3]), t)
  IN  IF \E i \in 1..Len(order) : ok(i)
        THEN CHOOSE i \in 1..Len(order) : ok(i) /\ \A j \in 1..(i - 1) : ~ ok(j)
        ELSE 0

\* first position of slot sl in the order, 0 when it is not in it
PositionOf(order, sl) ==
  IF \E i \in 1..Len(order) : order[i] = sl
    THEN CHOOSE i \in 1..Len(order) : order[i] = sl /\ \A j \in 1..(i - 1) : order[j] # sl
    ELSE 0

\* the query returns the first usable slot of the claimed order and records it,
\* and returns 0.0 and records nothing when the order has no usable slot
ReturnsFirstOfOrder(d, nf) ==
  LET order == QueryOrders[d, nf]
      k == FirstOld(order, cells, now)
  IN  IF k = 0
        THEN last'.ret = 0 /\ last_hit' = last_hit
        ELSE /\ Some(last'.ret) = SlotAt(cells, <<order[k][1], order[k][2]>>, order[k][3])[1]
             /\ last_hit' = Some(<<order[k][1], order[k][2], order[k][3], now>>)

C6_ClearedNotReturned ==
  [][(/\ last'.op = "invalidate"
      /\ last.op = "query"
      /\ invalidate_last_hit(2, "clear")
      /\ last_hit # None
      /\ now - Get(last_hit)[4] <= 2
      /\ OldEnough(MarkedSlot(cells, last_hit), Get(last_hit)[4])
      /\ MarkedSlot(cells, last_hit)[1] = Some(last.ret)) =>
       LET m == <<Get(last_hit)[1], Get(last_hit)[2], Get(last_hit)[3]>>
       IN  /\ last'.ret = TRUE
           /\ MarkedSlot(cells', last_hit) = EmptySlot
           /\ \A d \in QueryDists, nf \in BOOLEAN :
                LET again == QueryHit(cells', PointP[1], PointP[2], 0, d, nf, now)
                    order == QueryOrders[d, nf]
                    sl == <<Get(again)[2], Get(again)[3], Get(again)[4]>>
                IN  again # None =>
                      /\ sl # m
                      /\ (now = Get(last_hit)[4] /\ PositionOf(order, m) = FirstOld(order, cells, now))
                           => PositionOf(order, sl) > PositionOf(order, m)
    ]_vars

\* C6 as stated: the repeated query returns 0.0 or a slot later in the search
\* order than the cleared one, whenever the clear came within the window.
C6_RepeatLaterInOrder ==
  [][(/\ last'.op = "invalidate"
      /\ last.op = "query"
      /\ invalidate_last_hit(2, "clear")
      /\ last_hit # None
      /\ now - Get(last_hit)[4] <= 2
      /\ OldEnough(MarkedSlot(cells, last_hit), Get(last_hit)[4])
      /\ MarkedSlot(cells, last_hit)[1] = Some(last.ret)) =>
       LET m == <<Get(last_hit)[1], Get(last_hit)[2], Get(last_hit)[3]>>
       IN  \A d \in QueryDists, nf \in BOOLEAN :
             LET again == QueryHit(cells', PointP[1], PointP[2], 0, d, nf, now)
                 order == QueryOrders[d, nf]
                 sl == <<Get(again)[2], Get(again)[3], Get(again)[4]>>
             IN  (again # None
                   /\ PositionOf(order, m) = FirstOld(order, cells, Get(last_hit)[4]))
                   => PositionOf(order, sl) > PositionOf(order, m)
    ]_vars

\* the hit on bucket 0 of the home cell was cleared; the slot is empty and
\* other eligible slots remain for the repeated query
C6_Witness ==
  /\ last = [op |-> "invalidate", ret |-> TRUE]
  /\ last_hit = Some(<<CellP[1], CellP[2], 0, now>>)
  /\ SlotAt(cells, CellP, 0) = EmptySlot
  /\ OldEnough(SlotAt(cells, CellP, 7), now)

InvalidateWindows == {0, 2}
InvalidateActions == {"clear", "age_bump"}

\* C7: invalidate_last_hit returns false and leaves grid, dirty flag and
\* marker unchanged when no hit was recorded or more than window_s seconds
\* have passed since the hit; an elapsed time equal to window_s is inside.
C7_RefusedOutsideWindow ==
  [][\A w \in InvalidateWindows, a \in InvalidateActions :
       (last'.op = "invalidate" /\ invalidate_last_hit(w, a)) =>
         /\ (last_hit = None \/ now - Get(last_hit)[4] > w) =>
              (last'.ret = FALSE /\ UNCHANGED <<cells, dirty, last_hit>>)
         /\ (last_hit # None /\ now - Get(last_hit)[4] = w /\ a = "clear") =>
              (last'.ret = TRUE /\ MarkedSlot(cells', last_hit) = EmptySlot)
    ]_vars

\* three seconds after a hit the call was refused: the slot still holds its
\* value and the store is still clean
C7_Witness ==
  /\ last = [op |-> "invalidate", ret |-> FALSE]
  /\ last_hit = Some(<<CellA[1], CellA[2], 2, StartTime>>)
  /\ now = StartTime + 3
  /\ MarkedSlot(cells, last_hit) = <<Some(60), Some(StartTime - NeighborOldThreshold)>>
  /\ ~ dirty

\* C8 as stated: invalidate_last_hit returns true and marks the store dirty
\* exactly when the call changed the addressed slot.
C8_TrueIffChanged ==
  [][\A w \in InvalidateWindows, a \in InvalidateActions :
       (last'.op = "invalidate" /\ invalidate_last_hit(w, a)) =>
         IF cells' = cells
           THEN last'.ret = FALSE /\ dirty' = dirty
           ELSE last'.ret = TRUE /\ dirty'
    ]_vars

\* C9: every cell has exactly 8 slots; once construction has finished no
\* operation removes a cell, and a query never creates one.
C9_CellsKept ==
  /\ [](\A c \in DOMAIN cells : Len(cells[c]) = 8)
  /\ [][phase = "ready" => DOMAIN cells \subseteq DOMAIN cells']_vars
  /\ [][last'.op = "query" => DOMAIN cells' = DOMAIN cells]_vars

\* two cells were loaded, add_sample created a third, a "clear" emptied a
\* slot of a loaded cell, and close() has saved: all three cells are there
C9_Witness ==
  /\ last.op = "close"
  /\ ~ dirty
  /\ DOMAIN cells = {<<5, 5>>, <<5, 6>>, <<4, 5>>}
  /\ cells[<<5, 5>>][3] = EmptySlot
  /\ cells[<<4, 5>>][3][1] = Some(50)

TextIsDict(raw) == (~ ParseRaises(raw)) /\ raw.text.t = "dict"
FormatNotV4(raw) == TextIsDict(raw) /\ raw.text.format # V4
BucketsDeclared(raw) == TextIsDict(raw) /\ raw.text.dir_buckets.t = "num"
\* the declared dir_buckets is not the number 8
BucketsNot8(raw) == BucketsDeclared(raw) /\ raw.text.dir_buckets # JInt(8)
\* the declared dir_buckets, cut to an integer, is not 8
BucketsTruncNot8(raw) ==
  BucketsDeclared(raw) /\ ~ (raw.text.dir_buckets.x \in 80..89)

\* the cell coordinates a payload names
PayloadKeys(raw) ==
  IF TextIsDict(raw) /\ raw.text.cells.t = "dict"
    THEN {<<k[1], k[2]>> : k \in {k \in DOMAIN raw.text.cells.map : Len(k) = 2}}
    ELSE {}

\* the load ends with an empty grid, a clean flag and the key deleted
LoadReset == cells' = <<>> /\ ~ dirty' /\ store' = None /\ phase' = "ready"

\* the grid after the load is empty or has every cell of the payload
AllOrNothing(raw) == cells' = <<>> \/ DOMAIN cells' = PayloadKeys(raw)

WellFormedRow(arr) == IsRow(arr) /\ \A i \in 1..8 : IsPair(arr.items[i])

\* C11 as stated: on a load of a current-format payload a cell whose stored
\* array is not exactly 8 two-element pairs is restored as 8 empty slots, and
\* every well-formed cell of the payload is restored with its own pairs.
C11_MalformedCellEmptied ==
  [][(last'.op = "load" /\ load_from_params_if_exists /\ last'.ret = "loaded") =>
       LET m == CellsOf(Get(store).text).map
       IN  \A key \in DOMAIN m :
             cells'[<<key[1], key[2]>>] =
               IF WellFormedRow(m[key]) THEN [i \in 1..8 |-> FixPair(m[key].items[i])]
                                        ELSE EmptyRow
    ]_vars

\* the grid of a fresh instance constructed on the stored bytes raw
LoadedGrid(raw) == IF LoadOutcome(raw) = "loaded" THEN Restored(raw.text) ELSE <<>>

\* C12: saving a grid and loading the stored payload into a fresh instance,
\* with compression on or off, gives the same cells with the same 8
\* (value, timestamp) slots each.
C12_RoundTrip ==
  /\ [](phase = "ready" =>
          \A gz \in BOOLEAN :
            /\ LoadOutcome(encode_payload(cells, gz)) = "loaded"
            /\ LoadedGrid(encode_payload(cells, gz)) = cells)
  /\ [][(last'.op = "save" /\ save) =>
          (store' # None /\ LoadedGrid(Get(store')) = cells' /\ cells' = cells)]_vars

\* a grid of three cells, one created by add_sample and one with a slot
\* emptied by "clear", has been saved and loads back identical
C12_Witness ==
  /\ last.op = "save"
  /\ DOMAIN cells = {<<5, 5>>, <<5, 6>>, <<4, 5>>}
  /\ cells[<<4, 5>>][3] = <<Some(50), Some(StartTime)>>
  /\ cells[<<5, 5>>][3] = EmptySlot
  /\ cells[<<5, 6>>][3] = <<Some(70), Some(StartTime - 121)>>
  /\ store = Some(encode_payload(cells, UseGzip))
  /\ LoadedGrid(Get(store)) = cells

\* C13: maybe_save writes a snapshot exactly when the store is dirty and
\* now - last_save >= interval_s, and otherwise leaves the external store, the
\* dirty flag and last_save alone; every save leaves the flag clean and
\* last_save at the current time, and last_save never goes back, so a
\* snapshot written by maybe_save is at least interval_s after the one before.
C13_MaybeSaveDue ==
  /\ [][\A i \in SaveIntervals :
          (last'.op = "maybe_save" /\ maybe_save(i)) =>
            IF dirty /\ now - last_save >= i
              THEN /\ store' = Some(encode_payload(cells, UseGzip))
                   /\ ~ dirty'
                   /\ last_save' = now
              ELSE UNCHANGED <<store, dirty, last_save>>
      ]_vars
  /\ [][(phase = "ready" /\ (store' # store \/ last_save' # last_save \/ (dirty /\ ~ dirty'))) =>
          (~ dirty' /\ last_save' = now /\ store' = Some(encode_payload(cells, UseGzip)))
      ]_vars
  /\ [][last_save' >= last_save]_vars

\* a sample written at StartTime + JumpSeconds + 1 and a maybe_save that has
\* written it in the same second
C13_Witness ==
  /\ last.op = "maybe_save"
  /\ now = StartTime + JumpSeconds + 1
  /\ last_save = now
  /\ ~ dirty
  /\ store = Some(encode_payload(cells, UseGzip))
  /\ SlotAt(cells, <<4, 5>>, 2) = <<Some(50), Some(now)>>

\* the payload in the external store restores the grid as it is now
Persisted == cells = (IF store = None THEN <<>> ELSE LoadedGrid(Get(store)))

\* C14 as stated: whenever the dirty flag is clean, the last snapshot handed
\* to the external store contains every slot change made so far, for every
\* interleaving of add_sample / invalidate_last_hit with save / maybe_save.
C14_CleanMeansPersisted == (phase = "ready" /\ ~ dirty) => Persisted

\* the query has just returned a stored value from bucket 2 of CellA
HitCellA ==
  /\ last.op = "query"
  /\ last.ret # 0
  /\ last_hit = Some(<<CellA[1], CellA[2], 2, now>>)

\* C15 as amended: every value a query returns comes from a slot whose
\* timestamp is at least 120 s old, and a slot that add_sample filled from
\* absent at time t is not returned before t + 120; the value itself can be
\* newer than its timestamp, because a merge keeps the timestamp.
C15_TimestampOldEnough ==
  /\ [][(last'.op = "query" /\ last_hit' # None
           /\ (last_hit' # last_hit \/ last'.ret # 0)) =>
          /\ OldEnough(MarkedSlot(cells, last_hit'), now)
          /\ MarkedSlot(cells, last_hit')[1] = Some(last'.ret)
      ]_vars
  /\ \A t \in {StartTime} \cup FreshInstants :
       []((/\ last.op = "add_sample"
           /\ now = t
           /\ SlotAt(cells, CellA, 2)[1] # None
           /\ SlotAt(cells, CellA, 2)[2] = Some(t))
          => [](HitCellA => now >= t + NeighborOldThreshold))

\* C15 as stated: the value a query returns has been the slot's value at
\* every instant of the last 120 seconds.  A snapshot saved less than 120 s
\* before the query shows what the slot held at that instant.
C15_ValueHeldSinceSnapshot ==
  (/\ HitCellA
   /\ last_save > 0
   /\ now - last_save < NeighborOldThreshold
   /\ store # None) =>
     SlotAt(LoadedGrid(Get(store)), CellA, 2)[1] = Some(last.ret)

\* the loaded 6.0 was replaced by -3.0 at StartTime and the query returned the
\* -3.0 in the same second, on the strength of the timestamp of the 6.0
C15_Witness ==
  /\ now = StartTime
  /\ HitCellA
  /\ last.ret = -30
  /\ SlotAt(cells, CellA, 2) = <<Some(-30), Some(StartTime - NeighborOldThreshold)>>
  /\ store # None
  /\ SlotAt(LoadedGrid(Get(store)), CellA, 2)[1] = Some(60)

\* C16 as stated: in every reachable state, also after the load of a payload
\* the loader accepts, the value and the timestamp of each slot are both
\* present or both absent.
C16_BothOrNeither ==
  \A c \in DOMAIN cells : \A i \in 1..Len(cells[c]) :
    (cells[c][i][1] = None) <=> (cells[c][i][2] = None)

\* C17: a query that returns a stored value overwrites the marker with the
\* cell and the bucket that matched and the time of the query; a query that
\* finds nothing returns 0.0 and changes neither the marker nor the grid nor
\* the dirty flag; nothing but a query hit changes the marker.
C17_MarkerTracksHit ==
  /\ [][(last'.op = "query") =>
          /\ UNCHANGED <<cells, dirty>>
          /\ \A d \in QueryDists, nf \in BOOLEAN :
               query_target_dist(PointP[1], PointP[2], 0, d, nf) =>
                 IF FirstOld(QueryOrders[d, nf], cells, now) = 0
                   THEN last'.ret = 0 /\ UNCHANGED last_hit
                   ELSE /\ last_hit' # None
                        /\ Get(last_hit')[4] = now
                        /\ MarkedSlot(cells, last_hit')[1] = Some(last'.ret)
                        /\ OldEnough(MarkedSlot(cells, last_hit'), now)
                        /\ PositionOf(QueryOrders[d, nf],
                                      <<Get(last_hit')[1], Get(last_hit')[2], Get(last_hit')[3]>>)
                             = FirstOld(QueryOrders[d, nf], cells, now)
      ]_vars
  /\ [][last_hit' # last_hit => last'.op = "query"]_vars

\* the hit came from bucket b + 1 of a neighbor of the home cell, after an
\* earlier hit on the home cell had been cleared
C17_Witness ==
  /\ last = [op |-> "query", ret |-> 14]
  /\ last_hit = Some(<<4, 4, 1, now>>)
  /\ SlotAt(cells, <<5, 5>>, 0) = EmptySlot
  /\ SlotAt(cells, <<4, 4>>, 1)[1] = Some(14)
  /\ dirty

\* the marker names bucket 2 of CellA
MarksCellA ==
  /\ last_hit # None
  /\ <<Get(last_hit)[1], Get(last_hit)[2], Get(last_hit)[3]>> = <<CellA[1], CellA[2], 2>>

\* C18: a successful "age_bump" at time t keeps the value of the slot and sets
\* its timestamp to t; no query returns the slot before t + 120, whatever
\* add_sample and invalidate_last_hit calls come in between; "age_bump" on a
\* slot without a value returns false and changes nothing.
C18_AgeBumpRearms ==
  /\ [][\A w \in InvalidateWindows :
          (last'.op = "invalidate" /\ invalidate_last_hit(w, "age_bump")
             /\ last_hit # None /\ ~ OutsideWindow(Get(last_hit)[4], now, w)) =>
            IF MarkedSlot(cells, last_hit)[1] = None
              THEN last'.ret = FALSE /\ UNCHANGED <<cells, dirty, last_hit>>
              ELSE /\ last'.ret = TRUE
                   /\ MarkedSlot(cells', last_hit) = <<MarkedSlot(cells, last_hit)[1], Some(now)>>
                   /\ dirty'
      ]_vars
  /\ \A t \in Instants :
       []((/\ last = [op |-> "invalidate", ret |-> TRUE]
           /\ now = t
           /\ MarksCellA
           /\ SlotAt(cells, CellA, 2)[1] # None
           /\ SlotAt(cells, CellA, 2)[2] = Some(t))
          => [](HitCellA => now >= t + NeighborOldThreshold))

\* the slot loaded with 6.0 was age-bumped at StartTime and is returned again
\* at StartTime + 120
C18_Witness ==
  /\ now = StartTime + NeighborOldThreshold
  /\ HitCellA
  /\ last.ret = 60
  /\ SlotAt(cells, CellA, 2) = <<Some(60), Some(StartTime)>>

Sign(x) == IF x > 0 THEN 1 ELSE IF x < 0 THEN -1 ELSE 0

\* the slots the query of SpecSmall searches, in order
SmallOrder == ClaimedOrder(PointO[1], PointO[2], 90, 10, TRUE)

\* C19: from an empty grid no add_sample or invalidate_last_hit stores the
\* value 0.0, so a query returns 0.0 only when no slot it searches is
\* eligible; after a non-zero add_sample the addressed slot's value has the
\* sign of the sample.
C19_NoStoredZero ==
  /\ [](\A c \in DOMAIN cells : \A i \in 1..Len(cells[c]) : cells[c][i][1] # Some(0))
  /\ [][(last'.op = "query" /\ last'.ret = 0) =>
          (FirstOld(SmallOrder, cells, now) = 0 /\ UNCHANGED last_hit)]_vars
  /\ [][\A h \in MergeHeadings, s \in SmallSpeeds :
          (last'.op = "add_sample" /\ add_sample(PointA[1], PointA[2], h, s)
             /\ Round1(s) # 0) =>
            /\ SlotAt(cells', CellA, heading_to_bucket(h))[1] # None
            /\ Sign(Get(SlotAt(cells', CellA, heading_to_bucket(h))[1])) = Sign(Round1(s))
      ]_vars

\* the slot filled at StartTime holds 0.1 and has been returned 120 s later,
\* while the neighboring bucket holds a negative value
C19_Witness ==
  /\ now = StartTime + NeighborOldThreshold
  /\ HitCellA
  /\ last.ret = 1
  /\ SlotAt(cells, CellA, 2) = <<Some(1), Some(StartTime)>>
  /\ SlotAt(cells, CellA, 1)[1] = Some(-1)

\* C20 as stated: invalidate_last_hit retracts only what the last successful
\* query returned.  The query saw in the marked slot a value whose timestamp
\* was at least 120 s old; a marked slot stamped in the second of the hit,
\* with add_sample as the call before this one, holds newer contents, and the
\* call must leave them alone.
C20_OnlyRetractsReturned ==
  [][(/\ last'.op = "invalidate"
      /\ last.op = "add_sample"
      /\ last_hit # None
      /\ now = Get(last_hit)[4]
      /\ MarkedSlot(cells, last_hit)[1] # None
      /\ MarkedSlot(cells, last_hit)[2] = Some(now)) =>
       cells' = cells
    ]_vars

====
